---- MODULE Spec2Model ----
(***************************************************************************)
(* A model of mkgroups.py (NerdNu/mkgroups): module merging, group         *)
(* ordering, permission differencing and the emission of permission        *)
(* plugin commands.                                                        *)
(*                                                                         *)
(* Strings whose characters the program inspects (group names, permission  *)
(* tokens) are sequences of ASCII codes, so that lower(), upper(),         *)
(* startswith('^'), slicing and Python's byte-wise string order are        *)
(* modelled by what they do.  Context names and command verbs, which the   *)
(* program only compares for equality, are TLA+ strings.                   *)
(***************************************************************************)
EXTENDS Integers, Sequences, FiniteSets, TLC

VARIABLES
    pc,         \* position of the run, or "call"/"return" of a function call
    fnArgs,     \* arguments of the function under call
    fnResult,   \* what the function returned
    args,       \* the command line of a run: plugin, world, delete, add
    files,      \* the module directory: its modules and its world sub-directory
    contextMap, \* context name -> context, as loadContextMap built it
    todo,       \* the worlds the current phase of the run has still to handle
    out,        \* the commands printed (and sent) so far, in order
    err,        \* the warnings and errors printed that did not end the run
    produced,   \* what --list printed and what --output-modules wrote
    exit        \* how the run ended: "" while running, else the error

fnVars == <<fnArgs, fnResult>>

runVars == <<args, files, contextMap, todo, out, err, produced, exit>>

vars == <<pc, fnArgs, fnResult, args, files, contextMap, todo, out, err, produced, exit>>

(***************************************************************************)
(* Characters and strings                                                  *)
(***************************************************************************)

\* str.lower() on one ASCII character.
LowerChar(c) == IF c \in 65..90 THEN c + 32 ELSE c

\* str.upper() on one ASCII character.
UpperChar(c) == IF c \in 97..122 THEN c - 32 ELSE c

\* str.lower()
Lower(s) == [i \in 1..Len(s) |-> LowerChar(s[i])]

\* str.upper()
Upper(s) == [i \in 1..Len(s) |-> UpperChar(s[i])]

\* Python's < on two strings: byte-wise lexicographic, a proper prefix first.
StrLess(s, t) ==
    \E i \in 1..(Len(s) + 1) :
        /\ \A j \in 1..(i - 1) : j <= Len(t) /\ s[j] = t[j]
        /\ \/ i = Len(s) + 1 /\ Len(t) >= i
           \/ i <= Len(s) /\ i <= Len(t) /\ s[i] < t[i]

\* The sort keys of sorted(S, key=lambda v: v.upper()).
UpperKey(S) == [x \in S |-> Upper(x)]

\* The sort keys of a plain sorted(S).
PlainKey(S) == [x \in S |-> x]

\* sorted(S, key=...) of a collection whose keys are pairwise different (no two
\* group names of a context, and no two tokens of a set, share a key): the
\* element at position i is the one with i - 1 smaller keys.
SortedByKey(S, key) ==
    [i \in 1..Cardinality(S) |->
        CHOOSE x \in S : Cardinality({y \in S : StrLess(key[y], key[x])}) = i - 1]

\* The run's variables where only a function is called.
NoRun ==
    /\ args = <<>>
    /\ files = <<>>
    /\ contextMap = <<>>
    /\ todo = <<>>
    /\ out = <<>>
    /\ err = <<>>
    /\ produced = <<>>
    /\ exit = ""

\* The function-call variables during a run.
NoCall ==
    /\ fnArgs = <<>>
    /\ fnResult = <<>>

\* The set of elements of a sequence.
Range(s) == {s[i] : i \in 1..Len(s)}

\* All sequences over S of length at most n.
SeqsUpTo(S, n) == UNION {[1..k -> S] : k \in 0..n}

(***************************************************************************)
(* Bounds and input universes                                              *)
(***************************************************************************)

\* Total number of parent references in a groups map given to the orderer.
MaxEdges == 4

\* Length of a permission list given to the difference function.
MaxPerms == 2

\* Permission tokens "a", "b", "c", "^a", "^b" and the upper-case "A".
DiffTokens == {<<97>>, <<98>>, <<99>>, <<94, 97>>, <<94, 98>>, <<65>>}

\* Number of module files in the module directory and its world
\* sub-directory together.
MaxModules == 3

\* Group names "a", "B", "c", "D": their case-insensitive order (a B c D)
\* differs from their byte order (B D a c).
OrderNames == {<<97>>, <<66>>, <<99>>, <<68>>}

(***************************************************************************)
(* Group Graph Orderer                                                     *)
(***************************************************************************)

RECURSIVE depthFirstPostOrderTraversal(_, _, _)
RECURSIVE traverseDependencies(_, _, _, _)

\* A traversal that visits the node before its dependencies (preorder).
preOrderTraversal(node, edges, st) ==
    traverseDependencies(node, edges, 1,
        IF node \notin st.seen
        THEN [seen |-> st.seen \cup {node}, result |-> Append(st.result, node)]
        ELSE st)

\* depthFirstPostOrderTraversal(node, edges, seenNodes, visit) with the visit
\* function of both callers, result.append; st holds seenNodes and result.
depthFirstPostOrderTraversal(node, edges, st) ==
    LET done == traverseDependencies(node, edges, 1, st)
    IN  IF node \notin done.seen
        THEN [seen |-> done.seen \cup {node}, result |-> Append(done.result, node)]
        ELSE done

\* The loop `for dependency in edges[node]`, from its i-th element on.
traverseDependencies(node, edges, i, st) ==
    IF i > Len(edges[node]) THEN st
    ELSE LET dependency == edges[node][i]
         IN  IF dependency \notin st.seen
             THEN LET sub == depthFirstPostOrderTraversal(dependency, edges,
                                 [st EXCEPT !.seen = @ \cup {dependency}])
                  IN  traverseDependencies(node, edges, i + 1,
                          [sub EXCEPT !.result = Append(@, dependency)])
             ELSE traverseDependencies(node, edges, i + 1, st)

\* The loop over the pre-sorted roots, from the i-th root on.
RECURSIVE traverseRoots(_, _, _, _)
traverseRoots(roots, groups, i, st) ==
    IF i > Len(roots) THEN st
    ELSE traverseRoots(roots, groups, i + 1,
             depthFirstPostOrderTraversal(roots[i], groups, st))

\* naturallyOrderedGroups with the roots pre-sorted case-sensitively.
naturallyOrderedGroupsByteOrder(groups) ==
    traverseRoots(SortedByKey(DOMAIN groups, PlainKey(DOMAIN groups)), groups, 1,
                  [seen |-> {}, result |-> <<>>]).result

\* naturallyOrderedGroups(groups)
naturallyOrderedGroups(groups) ==
    traverseRoots(SortedByKey(DOMAIN groups, UpperKey(DOMAIN groups)), groups, 1,
                  [seen |-> {}, result |-> <<>>]).result

(***************************************************************************)
(* Graph notions the claims are stated with                                *)
(***************************************************************************)

\* The groups reachable from g by one or more parent references.
RECURSIVE Reach(_, _, _)
Reach(groups, frontier, found) ==
    LET next == UNION {Range(groups[x]) : x \in frontier} \ found
    IN  IF next = {} THEN found ELSE Reach(groups, next, found \cup next)

Ancestors(groups, g) == Reach(groups, {g}, {})

Acyclic(groups) == \A g \in DOMAIN groups : g \notin Ancestors(groups, g)

ParentsAreKeys(groups) == \A g \in DOMAIN groups : Range(groups[g]) \subseteq DOMAIN groups

\* The position of x in a sequence (0 when absent).
IndexOf(s, x) == IF x \in Range(s) THEN CHOOSE i \in 1..Len(s) : s[i] = x ELSE 0

(***************************************************************************)
(* Specification of the orderer: a groups map is handed to                 *)
(* naturallyOrderedGroups.                                                 *)
(***************************************************************************)

\* Every groups map over the four names (repeated parents, self references
\* and cycles included) that holds at most MaxEdges parent references.
InitOrder ==
    /\ pc = "call"
    /\ \E pa \in SeqsUpTo(OrderNames, MaxEdges) :
       \E pB \in SeqsUpTo(OrderNames, MaxEdges - Len(pa)) :
       \E pc0 \in SeqsUpTo(OrderNames, MaxEdges - Len(pa) - Len(pB)) :
       \E pD \in SeqsUpTo(OrderNames, MaxEdges - Len(pa) - Len(pB) - Len(pc0)) :
           fnArgs = [groups |-> (<<97>> :> pa) @@ (<<66>> :> pB)
                                    @@ (<<99>> :> pc0) @@ (<<68>> :> pD)]
    /\ fnResult = <<>>
    /\ NoRun

CallNaturallyOrderedGroups ==
    /\ pc = "call"
    /\ pc' = "return"
    /\ fnResult' = naturallyOrderedGroups(fnArgs.groups)
    /\ UNCHANGED <<fnArgs, runVars>>

NextOrder == CallNaturallyOrderedGroups

SpecOrder == InitOrder /\ [][NextOrder]_vars

\* C1: for a groups map whose parents are all keys and whose parent relation
\* is acyclic, the returned sequence holds every group exactly once, and
\* every group stands strictly after each of its transitive ancestors.
C1_TopologicalOrder ==
    (pc = "return" /\ ParentsAreKeys(fnArgs.groups) /\ Acyclic(fnArgs.groups)) =>
        /\ Range(fnResult) = DOMAIN fnArgs.groups
        /\ Len(fnResult) = Cardinality(DOMAIN fnArgs.groups)
        /\ \A g \in DOMAIN fnArgs.groups : \A a \in Ancestors(fnArgs.groups, g) :
               IndexOf(fnResult, a) < IndexOf(fnResult, g)

\* A diamond a <- {B, c} <- D has been ordered.
C1_Witness ==
    /\ pc = "return"
    /\ Acyclic(fnArgs.groups)
    /\ fnArgs.groups[<<97>>] = <<<<66>>, <<99>>>>
    /\ fnArgs.groups[<<66>>] = <<<<68>>>>
    /\ fnArgs.groups[<<99>>] = <<<<68>>>>
    /\ fnResult = <<<<68>>, <<66>>, <<99>>, <<97>>>>

\* Neither group is a transitive ancestor of the other.
Unrelated(groups, g, h) ==
    g /= h /\ g \notin Ancestors(groups, h) /\ h \notin Ancestors(groups, g)

\* g sorts before h case-insensitively.
CaseInsensitiveLess(g, h) == StrLess(Upper(g), Upper(h))

lowerArray(a) == [i \in 1..Len(a) |-> Lower(a[i])]

\* bPermission.startswith('^')
IsNegated(bPermission) == Len(bPermission) >= 1 /\ bPermission[1] = 94

\* bPermission[1:]
StripCaret(bPermission) == SubSeq(bPermission, 2, Len(bPermission))

\* '^' + node
Negation(node) == <<94>> \o node

\* The result of a function that may end the run with sys.exit(1).
Returned(v) == [ok |-> TRUE, value |-> v]
Exited(kind, g, what) == [ok |-> FALSE, error |-> kind, group |-> g, about |-> what]

\* The loop of permissionsAsBooleanMap over the lower-cased list, from its
\* i-th element on; result is the map built so far.
RECURSIVE booleanMapFrom(_, _, _, _)
booleanMapFrom(perms, group, i, result) ==
    IF i > Len(perms) THEN Returned(result)
    ELSE LET bPermission == perms[i]
             permission == IF IsNegated(bPermission) THEN StripCaret(bPermission)
                           ELSE bPermission
             state == ~IsNegated(bPermission)
         IN  IF permission \in DOMAIN result /\ result[permission] = ~state
             THEN Exited("ConflictingPermissionError", group, permission)
             ELSE booleanMapFrom(perms, group, i + 1,
                      (permission :> state) @@ result)

\* permissionsAsBooleanMap(perms, group)
permissionsAsBooleanMap(perms, group) ==
    booleanMapFrom(lowerArray(perms), group, 1, <<>>)

\* A difference that also denies the nodes only `before` mentions.
changedPermissionsWithRemovals(beforeMap, afterMap) ==
    {IF afterMap[node] THEN node ELSE Negation(node) :
        node \in {n \in DOMAIN afterMap :
                    n \notin DOMAIN beforeMap \/ afterMap[n] /= beforeMap[n]}}
    \cup {Negation(node) : node \in {n \in DOMAIN beforeMap :
                                        n \notin DOMAIN afterMap /\ beforeMap[n]}}

\* A difference that does not look at `before`.
changedPermissionsUnminimised(beforeMap, afterMap) ==
    {IF afterMap[node] THEN node ELSE Negation(node) : node \in DOMAIN afterMap}

\* The changes list built by the loop of differencePermissions over the
\* union of the two maps' nodes (its order is fixed by the sort that follows).
changedPermissions(beforeMap, afterMap) ==
    {IF afterMap[node] THEN node ELSE Negation(node) :
        node \in {n \in DOMAIN beforeMap \cup DOMAIN afterMap :
                    /\ n \in DOMAIN afterMap
                    /\ (n \notin DOMAIN beforeMap \/ afterMap[n] /= beforeMap[n])}}

\* The node a signed token is about.
NodeOf(token) == IF IsNegated(token) THEN StripCaret(token) ELSE token

\* differencePermissions with the changes sorted by node, sign ignored.
differencePermissionsSortedByNode(before, after, group) ==
    LET beforeMap == permissionsAsBooleanMap(before, group)
        afterMap == permissionsAsBooleanMap(after, group)
    IN  IF ~beforeMap.ok THEN beforeMap
        ELSE IF ~afterMap.ok THEN afterMap
        ELSE LET changes == changedPermissions(beforeMap.value, afterMap.value)
             IN  Returned(SortedByKey(changes, [t \in changes |-> NodeOf(t)]))

\* differencePermissions(before, after, group)
differencePermissions(before, after, group) ==
    LET beforeMap == permissionsAsBooleanMap(before, group)
        afterMap == permissionsAsBooleanMap(after, group)
    IN  IF ~beforeMap.ok THEN beforeMap
        ELSE IF ~afterMap.ok THEN afterMap
        ELSE LET changes == changedPermissions(beforeMap.value, afterMap.value)
             IN  Returned(SortedByKey(changes, PlainKey(changes)))

(***************************************************************************)
(* Specification of the difference: two permission lists are handed to     *)
(* differencePermissions.                                                  *)
(***************************************************************************)

InitDiff ==
    /\ pc = "call"
    /\ fnArgs \in {[before |-> b, after |-> a, group |-> <<71>>] :
                     b \in SeqsUpTo(DiffTokens, MaxPerms),
                     a \in SeqsUpTo(DiffTokens, MaxPerms)}
    /\ fnResult = <<>>
    /\ NoRun

CallDifferencePermissions ==
    /\ pc = "call"
    /\ pc' = "return"
    /\ fnResult' = differencePermissions(fnArgs.before, fnArgs.after, fnArgs.group)
    /\ UNCHANGED <<fnArgs, runVars>>

NextDiff == CallDifferencePermissions

SpecDiff == InitDiff /\ [][NextDiff]_vars

\* What a permission list says, read off the list itself: the nodes it
\* grants and the nodes it denies (tri-state: granted, denied, absent).
Granted(perms) == {Lower(perms[i]) : i \in {j \in 1..Len(perms) : ~IsNegated(perms[j])}}
Denied(perms) == {StripCaret(Lower(perms[i])) : i \in {j \in 1..Len(perms) : IsNegated(perms[j])}}
Mentioned(perms) == Granted(perms) \cup Denied(perms)

\* The call returned a difference (neither list both grants and denies a node).
DiffReturned == pc = "return" /\ "before" \in DOMAIN fnArgs /\ fnResult.ok

\* C6: the difference holds a signed node exactly for each node to which
\* `after` gives a value that `before` does not give it (the node itself when
\* granted, its negation when denied), each once; a node only `before`
\* mentions yields nothing.
C6_DiffIsAftersNews ==
    DiffReturned =>
        LET diff == fnResult.value
            nodes == Mentioned(fnArgs.before) \cup Mentioned(fnArgs.after)
        IN  /\ Len(diff) = Cardinality(Range(diff))
            /\ Range(diff) \subseteq nodes \cup {Negation(n) : n \in nodes}
            /\ \A n \in nodes :
                 /\ n \in Range(diff) <=>
                        (n \in Granted(fnArgs.after) /\ n \notin Granted(fnArgs.before))
                 /\ Negation(n) \in Range(diff) <=>
                        (n \in Denied(fnArgs.after) /\ n \notin Denied(fnArgs.before))
                 /\ n \notin Mentioned(fnArgs.after) =>
                        (n \notin Range(diff) /\ Negation(n) \notin Range(diff))

\* before [a, b] and after [a, c] gave exactly [c].
C6_Witness ==
    /\ DiffReturned
    /\ fnArgs.before = <<<<97>>, <<98>>>>
    /\ fnArgs.after = <<<<97>>, <<99>>>>
    /\ fnResult.value = <<<<99>>>>

\* Overlaying a difference on a list: each signed node of the difference sets
\* its node, every other node keeps what the list says.  The result is given
\* as a permission list again.
OverlayGranted(perms, diff) ==
    (Granted(perms) \ {NodeOf(t) : t \in {u \in Range(diff) : IsNegated(u)}})
        \cup {t \in Range(diff) : ~IsNegated(t)}
OverlayDenied(perms, diff) ==
    (Denied(perms) \ {t \in Range(diff) : ~IsNegated(t)})
        \cup {NodeOf(t) : t \in {u \in Range(diff) : IsNegated(u)}}
Overlay(perms, diff) ==
    LET tokens == OverlayGranted(perms, diff)
                      \cup {Negation(n) : n \in OverlayDenied(perms, diff)}
    IN  SortedByKey(tokens, PlainKey(tokens))

\* C7: the difference is empty when both lists say the same; overlaid on
\* `before` it gives what `after` says on every node `after` mentions and
\* what `before` says on every other node, and the difference from that
\* overlay to `after` is empty.
C7_DiffOverlay ==
    DiffReturned =>
        LET diff == fnResult.value
            og == OverlayGranted(fnArgs.before, diff)
            od == OverlayDenied(fnArgs.before, diff)
        IN  /\ (/\ Granted(fnArgs.before) = Granted(fnArgs.after)
                /\ Denied(fnArgs.before) = Denied(fnArgs.after)) => diff = <<>>
            /\ \A n \in Mentioned(fnArgs.after) :
                 /\ n \in og <=> n \in Granted(fnArgs.after)
                 /\ n \in od <=> n \in Denied(fnArgs.after)
            /\ \A n \in (og \cup od \cup Mentioned(fnArgs.before)) \ Mentioned(fnArgs.after) :
                 /\ n \in og <=> n \in Granted(fnArgs.before)
                 /\ n \in od <=> n \in Denied(fnArgs.before)
            /\ differencePermissions(Overlay(fnArgs.before, diff), fnArgs.after,
                                     fnArgs.group) = Returned(<<>>)

\* before [a, ^b] and after [^a, c]: the difference [^a, c] overlaid on
\* before gives [^a, ^b, c].
C7_Witness ==
    /\ DiffReturned
    /\ fnArgs.before = <<<<97>>, <<94, 98>>>>
    /\ fnArgs.after = <<<<94, 97>>, <<99>>>>
    /\ fnResult.value = <<<<94, 97>>, <<99>>>>
    /\ Overlay(fnArgs.before, fnResult.value) = <<<<94, 97>>, <<94, 98>>, <<99>>>>

\* C8 as stated: the difference is sorted by node name, whether an entry is
\* in granted or in negated form.
C8_SortedByNode ==
    DiffReturned =>
        \A i, j \in 1..Len(fnResult.value) :
            i < j => StrLess(NodeOf(fnResult.value[i]), NodeOf(fnResult.value[j]))

\* C8 as amended: the difference is sorted by the text of its entries, the
\* leading '^' of a negated entry included (so that '^b' stands before 'a').
C8_SortedByTokenText ==
    DiffReturned =>
        \A i, j \in 1..Len(fnResult.value) :
            i < j => StrLess(fnResult.value[i], fnResult.value[j])

\* after [a, ^b] against an empty before gave [^b, a].
C8_Witness ==
    /\ DiffReturned
    /\ fnArgs.before = <<>>
    /\ fnArgs.after = <<<<97>>, <<94, 98>>>>
    /\ fnResult.value = <<<<94, 98>>, <<97>>>>

(***************************************************************************)
(* Module Merger                                                           *)
(***************************************************************************)

\* An argument that may be None: <<>> stands for None, <<list>> for a list.
\* `a or []` is the list, and the empty list for None.
OrEmpty(a) == IF a = <<>> THEN <<>> ELSE a[1]

\* mergePermissions without the conversion to lower case.
mergePermissionsCaseKept(a, b) ==
    LET union == Range(OrEmpty(a)) \cup Range(OrEmpty(b))
    IN  SortedByKey(union, PlainKey(union))

\* mergePermissions(a, b); a and b may be None.
mergePermissions(a, b) ==
    LET union == Range(lowerArray(OrEmpty(a))) \cup Range(lowerArray(OrEmpty(b)))
    IN  SortedByKey(union, PlainKey(union))

\* mergeGroups(a, b)
mergeGroups(a, b) == a \o SelectSeq(b, LAMBDA group : group \notin Range(a))

\* mergeDicts(groups, module['groups'], lambda _, x, y: mergeGroups(x, y))
mergeDictsGroups(a, b) ==
    [k \in DOMAIN a \cup DOMAIN b |->
        IF k \in DOMAIN a /\ k \in DOMAIN b THEN mergeGroups(a[k], b[k])
        ELSE IF k \in DOMAIN a THEN a[k] ELSE b[k]]

\* mergeDicts(permissions, module['permissions'],
\*            lambda _, x, y: mergePermissions(x, y))
mergeDictsPermissions(a, b) ==
    [k \in DOMAIN a \cup DOMAIN b |->
        IF k \in DOMAIN a /\ k \in DOMAIN b THEN mergePermissions(<<a[k]>>, <<b[k]>>)
        ELSE IF k \in DOMAIN a THEN a[k] ELSE b[k]]

\* A merge of weights that ends the run only where the two weights differ.
mergeDictsWeightsIfDifferent(a, b) ==
    IF \E k \in DOMAIN a \cap DOMAIN b : a[k] /= b[k]
    THEN LET group == CHOOSE k \in DOMAIN a \cap DOMAIN b : a[k] /= b[k]
         IN  Exited("DuplicateWeightError", group, <<a[group], b[group]>>)
    ELSE Returned([k \in DOMAIN a \cup DOMAIN b |->
                      IF k \in DOMAIN a THEN a[k] ELSE b[k]])

\* mergeDicts(weights, module['weights'], mergeWeights): mergeWeights ends the
\* run at the first key both hold (which of several the dict order decides;
\* the error names one of them).
mergeDictsWeights(a, b) ==
    IF DOMAIN a \cap DOMAIN b /= {}
    THEN LET group == CHOOSE k \in DOMAIN a \cap DOMAIN b : TRUE
         IN  Exited("DuplicateWeightError", group, <<a[group], b[group]>>)
    ELSE Returned([k \in DOMAIN a \cup DOMAIN b |->
                      IF k \in DOMAIN a THEN a[k] ELSE b[k]])

\* makeContext without its setdefault loop: the maps are returned as given.
makeContextAsGiven(groups, weights, permissions) ==
    LET allGroups == DOMAIN groups \cup DOMAIN permissions \cup DOMAIN weights
                        \cup UNION {Range(groups[g]) : g \in DOMAIN groups}
    IN  IF \E x, y \in allGroups : x /= y /\ Lower(x) = Lower(y)
        THEN Exited("NameCaseConflict", <<>>, <<>>)
        ELSE Returned([groups |-> groups, weights |-> weights,
                       permissions |-> permissions])

\* makeContext(groups, weights, permissions)
makeContext(groups, weights, permissions) ==
    LET allGroups == DOMAIN groups \cup DOMAIN permissions \cup DOMAIN weights
                        \cup UNION {Range(groups[g]) : g \in DOMAIN groups}
        mentions == [l \in {Lower(g) : g \in allGroups} |->
                        {g \in allGroups : Lower(g) = l}]
    IN  IF \E l \in DOMAIN mentions : Cardinality(mentions[l]) > 1
        THEN LET l == CHOOSE x \in DOMAIN mentions : Cardinality(mentions[x]) > 1
             IN  Exited("NameCaseConflict", l, mentions[l])
        ELSE Returned([groups |-> [g \in allGroups |->
                                      IF g \in DOMAIN groups THEN groups[g] ELSE <<>>],
                       weights |-> weights,
                       permissions |-> [g \in allGroups |->
                                      IF g \in DOMAIN permissions THEN permissions[g]
                                      ELSE <<>>]])

\* The loop of loadModules over the module files, from the i-th file on; acc
\* holds the groups, weights and permissions merged so far.
RECURSIVE mergeModulesFrom(_, _, _)
mergeModulesFrom(modules, i, acc) ==
    IF i > Len(modules) THEN Returned(acc)
    ELSE LET module == modules[i]
             weights == mergeDictsWeights(acc.weights, module.weights)
         IN  IF ~weights.ok THEN weights
             ELSE mergeModulesFrom(modules, i + 1,
                      [groups |-> mergeDictsGroups(acc.groups, module.groups),
                       weights |-> weights.value,
                       permissions |-> mergeDictsPermissions(acc.permissions,
                                                             module.permissions)])

\* loadModules(moduleDirectory, None): modules are the directory's *.yml
\* files in the order glob lists them; a module without a key is a module
\* with an empty map for it.
loadModules(modules) ==
    IF modules = <<>> THEN Exited("NoModuleFiles", <<>>, <<>>)
    ELSE LET merged == mergeModulesFrom(modules, 1,
                           [groups |-> <<>>, weights |-> <<>>, permissions |-> <<>>])
         IN  IF ~merged.ok THEN merged
             ELSE makeContext(merged.value.groups, merged.value.weights,
                              merged.value.permissions)

\* The context names 'default' and 'all'.
DefaultWorld == <<100, 101, 102, 97, 117, 108, 116>>
AllWorlds == <<97, 108, 108>>

\* The loop of loadContextMap over the sub-directories, those of `left`
\* still to load (os.listdir gives them in no particular order; the first
\* that fails ends the run).
RECURSIVE loadWorldsFrom(_, _, _)
loadWorldsFrom(dir, left, map) ==
    IF left = {} THEN Returned(map)
    ELSE LET bad == {w \in left : ~loadModules(dir.worlds[w]).ok}
         IN  IF bad /= {} THEN loadModules(dir.worlds[CHOOSE w \in bad : TRUE])
             ELSE Returned([w \in DOMAIN map \cup left |->
                               IF w \in left THEN loadModules(dir.worlds[w]).value
                               ELSE map[w]])

\* loadContextMap(contextName, moduleDirectory, None); dir holds the
\* directory's modules and its world sub-directories.
loadContextMap(contextName, dir) ==
    LET default == loadModules(dir.modules)
    IN  IF ~default.ok THEN default
        ELSE IF contextName = AllWorlds
             THEN loadWorldsFrom(dir, DOMAIN dir.worlds, DefaultWorld :> default.value)
        ELSE IF contextName /= DefaultWorld /\ contextName \in DOMAIN dir.worlds
             THEN loadWorldsFrom(dir, {contextName}, DefaultWorld :> default.value)
        \* Otherwise: 'default', or error(...) without sys.exit for a context
        \* that is no sub-directory.
        ELSE Returned(DefaultWorld :> default.value)

(***************************************************************************)
(* Command sinks: what each Server method prints and sends, as a sequence  *)
(* of commands.  A command keeps the parts of its text: the verb, the      *)
(* group, the argument and the world clause (<<>> when the text has none). *)
(***************************************************************************)

Command(op, groupName, arg, world) ==
    [op |-> op, group |-> groupName, arg |-> arg, world |-> world]

\* '' if world == 'default' else ' world=' + world
worldClause(world) == IF world = DefaultWorld THEN <<>> ELSE world

\* bPermissions: if world == 'default': world = 'world'
bPermissionsWorld(world) ==
    IF world = DefaultWorld THEN <<119, 111, 114, 108, 100>> ELSE world

\* weights.get(group): <<>> stands for None, <<w>> for the weight w.
GetWeight(weights, group) ==
    IF group \in DOMAIN weights THEN <<weights[group]>> ELSE <<>>

\* Python's truth value of a weight: None and 0 are false.
Truthy(weight) == weight /= <<>> /\ weight[1] /= 0

\* warning(text): a line on stderr, and no command.
Warning(groupName, text) ==
    [op |-> "WARNING", group |-> groupName, arg |-> text, world |-> <<>>]

IsWarning(line) == line.op = "WARNING"

createGroup(plugin, groupName, world) ==
    IF plugin = "LuckPerms"
    THEN <<Command("lp creategroup", groupName, <<>>, <<>>)>>
    ELSE <<Command("group", groupName, <<>>, worldClause(world))>>

setGroupWeight(plugin, groupName, weight, world) ==
    IF plugin = "LuckPerms"
    THEN IF Truthy(weight)
         THEN <<Command("lp group setweight", groupName, weight[1], worldClause(world))>>
         ELSE <<>>
    ELSE <<>>

deleteGroup(plugin, groupName, world) ==
    IF plugin = "LuckPerms"
    THEN <<Command("lp deletegroup", groupName, <<>>, <<>>)>>
    ELSE <<Warning(groupName, "deleting groups is not supported by bPermissions commands")>>

groupClearPerms(plugin, groupName, world) ==
    IF plugin = "LuckPerms"
    THEN <<Command("lp group clear", groupName, <<>>, worldClause(world))>>
    ELSE <<Warning(groupName, "clearing default group permissions is not implemented")>>

groupAddPerm(plugin, groupName, bpermission, world) ==
    IF plugin = "LuckPerms"
    THEN <<Command("lp group permission set", groupName,
                   IF IsNegated(bpermission)
                   THEN <<StripCaret(bpermission), "false">>
                   ELSE <<bpermission, "true">>,
                   worldClause(world))>>
    ELSE <<Command("exec a:addperm", groupName, bpermission, bPermissionsWorld(world))>>

groupAddParent(plugin, groupName, parentGroupName, world) ==
    IF plugin = "LuckPerms"
    THEN <<Command("lp group parent add", groupName, parentGroupName, worldClause(world))>>
    ELSE <<Command("exec a:addgroup", groupName, parentGroupName, bPermissionsWorld(world))>>

\* The concatenation of a sequence of sequences.
RECURSIVE Flatten(_)
Flatten(ss) == IF ss = <<>> THEN <<>> ELSE Head(ss) \o Flatten(Tail(ss))

\* group.lower() == 'default'
IsDefaultGroup(group) == Lower(group) = <<100, 101, 102, 97, 117, 108, 116>>

\* sorted(groups.keys(), key=lambda v: v.upper())
sortedGroupNames(keys) == SortedByKey(keys, UpperKey(keys))

\* What a call of updatePermissions or deletePermissions did: the commands
\* it issued (and the warnings it gave in place of commands), and whether it
\* returned or ended the run.
Issued(commands) == [ok |-> TRUE, out |-> commands]
Aborted(commands, failure) == [ok |-> FALSE, out |-> commands, error |-> failure.error]

\* An updatePermissions that handles one group after the other: creation,
\* weight, parents and permissions of a group before the next group.
ServerUpdatePermissionsByGroup(plugin, map, world) ==
    LET context == map[world]
        groups == context.groups
        weights == context.weights
        permissions == context.permissions
        sorted == sortedGroupNames(DOMAIN groups)
    IN  Issued(
          Flatten([i \in 1..Len(sorted) |->
              (IF ~IsDefaultGroup(sorted[i])
               THEN createGroup(plugin, sorted[i], world) ELSE <<>>)
              \o setGroupWeight(plugin, sorted[i], GetWeight(weights, sorted[i]), world)
              \o Flatten([j \in 1..Len(groups[sorted[i]]) |->
                     groupAddParent(plugin, sorted[i], groups[sorted[i]][j], world)])
              \o Flatten([j \in 1..Len(permissions[sorted[i]]) |->
                     groupAddPerm(plugin, sorted[i], permissions[sorted[i]][j], world)])]))

\* Server.updatePermissions(contextMap, world)
ServerUpdatePermissions(plugin, map, world) ==
    LET context == map[world]
        groups == context.groups
        weights == context.weights
        permissions == context.permissions
        sorted == sortedGroupNames(DOMAIN groups)
    IN  Issued(
          Flatten([i \in 1..Len(sorted) |->
              (IF ~IsDefaultGroup(sorted[i])
               THEN createGroup(plugin, sorted[i], world) ELSE <<>>)
              \o setGroupWeight(plugin, sorted[i], GetWeight(weights, sorted[i]), world)])
          \o Flatten([i \in 1..Len(sorted) |->
              Flatten([j \in 1..Len(groups[sorted[i]]) |->
                  groupAddParent(plugin, sorted[i], groups[sorted[i]][j], world)])])
          \o Flatten([i \in 1..Len(sorted) |->
              Flatten([j \in 1..Len(permissions[sorted[i]]) |->
                  groupAddPerm(plugin, sorted[i], permissions[sorted[i]][j], world)])]))

\* Server.deletePermissions that only clears every group.
ServerDeletePermissionsClearOnly(plugin, map, world) ==
    LET sorted == sortedGroupNames(DOMAIN map[world].groups)
    IN  Issued(Flatten([i \in 1..Len(sorted) |->
            groupClearPerms(plugin, sorted[i], world)]))

\* Server.deletePermissions(contextMap, world)
ServerDeletePermissions(plugin, map, world) ==
    LET sorted == sortedGroupNames(DOMAIN map[world].groups)
    IN  Issued(Flatten([i \in 1..Len(sorted) |->
            IF IsDefaultGroup(sorted[i])
            THEN groupClearPerms(plugin, sorted[i], world)
            ELSE deleteGroup(plugin, sorted[i], world)]))

\* defaultContext['permissions'].get(group, [])
GetPermissions(permissions, group) ==
    IF group \in DOMAIN permissions THEN permissions[group] ELSE <<>>

\* The last loop of LuckPermsServer.updatePermissions: the permission
\* changes of each group in turn; differencePermissions ends the run at the
\* first group with a list that holds a node and its negation.
LuckPermsChangedPerms(defaultContext, context, sorted, world) ==
    LET changed == [i \in 1..Len(sorted) |->
                       differencePermissions(
                           GetPermissions(defaultContext.permissions, sorted[i]),
                           GetPermissions(context.permissions, sorted[i]),
                           sorted[i])]
        failed == {i \in 1..Len(sorted) : ~changed[i].ok}
        stop == IF failed = {} THEN Len(sorted) + 1
                ELSE CHOOSE i \in failed : \A k \in failed : i <= k
        issued == Flatten([i \in 1..(stop - 1) |->
                      Flatten([j \in 1..Len(changed[i].value) |->
                          groupAddPerm("LuckPerms", sorted[i], changed[i].value[j], world)])])
    IN  IF failed = {} THEN Issued(issued) ELSE Aborted(issued, changed[stop])

\* LuckPermsServer.updatePermissions(contextMap, world)
LuckPermsUpdatePermissions(map, world) ==
    IF world = DefaultWorld THEN ServerUpdatePermissions("LuckPerms", map, world)
    ELSE
    LET defaultContext == map[DefaultWorld]
        context == map[world]
        groups == context.groups
        weights == context.weights
        sorted == sortedGroupNames(DOMAIN groups)
        extraGroups == sortedGroupNames(DOMAIN groups \ DOMAIN defaultContext.groups)
        created == Flatten([i \in 1..Len(extraGroups) |->
                       IF ~IsDefaultGroup(extraGroups[i])
                       THEN createGroup("LuckPerms", extraGroups[i], world) ELSE <<>>])
        weighted == Flatten([i \in 1..Len(sorted) |->
                       LET weight == GetWeight(weights, sorted[i])
                           defaultWeight == GetWeight(defaultContext.weights, sorted[i])
                       IN  IF weight /= <<>> /\ weight /= defaultWeight
                           THEN setGroupWeight("LuckPerms", sorted[i], weight, world)
                           ELSE <<>>])
        parented == Flatten([i \in 1..Len(sorted) |->
                       \* defaultContext['groups'].get(group) is None for a
                       \* group the default context lacks: unequal to any list.
                       IF sorted[i] \notin DOMAIN defaultContext.groups
                          \/ groups[sorted[i]] /= defaultContext.groups[sorted[i]]
                       THEN Flatten([j \in 1..Len(groups[sorted[i]]) |->
                                groupAddParent("LuckPerms", sorted[i],
                                               groups[sorted[i]][j], world)])
                       ELSE <<>>])
        perms == LuckPermsChangedPerms(defaultContext, context, sorted, world)
    IN  [perms EXCEPT !.out = created \o weighted \o parented \o @]

\* LuckPermsServer.deletePermissions(contextMap, world)
LuckPermsDeletePermissions(map, world) ==
    IF world = DefaultWorld THEN ServerDeletePermissions("LuckPerms", map, world)
    ELSE
    LET defaultGroups == DOMAIN map[DefaultWorld].groups
        cleared == sortedGroupNames(defaultGroups)
        worldSpecificGroups == sortedGroupNames(DOMAIN map[world].groups \ defaultGroups)
    IN  Issued(Flatten([i \in 1..Len(cleared) |->
                   groupClearPerms("LuckPerms", cleared[i], world)])
               \o Flatten([i \in 1..Len(worldSpecificGroups) |->
                   deleteGroup("LuckPerms", worldSpecificGroups[i], world)]))

\* server.updatePermissions(contextMap, world) on the server that
\* Server.withPermissionsPlugin made.
updatePermissions(plugin, map, world) ==
    IF plugin = "LuckPerms" THEN LuckPermsUpdatePermissions(map, world)
    ELSE ServerUpdatePermissions(plugin, map, world)

\* server.deletePermissions(contextMap, world)
deletePermissions(plugin, map, world) ==
    IF plugin = "LuckPerms" THEN LuckPermsDeletePermissions(map, world)
    ELSE ServerDeletePermissions(plugin, map, world)

(***************************************************************************)
(* The run of the program: __main__ loads the context map, then deletes    *)
(* and adds permissions as the command line asks.                          *)
(***************************************************************************)

\* The group names "a", "B", "b" and "default", the permission tokens "x.y",
\* "^x.y" and "X.Y", and the world "nether" of the module files below.
GroupA == <<97>>
GroupB == <<66>>
GroupLowerB == <<98>>
GroupDefault == <<100, 101, 102, 97, 117, 108, 116>>
PermXY == <<120, 46, 121>>
PermNotXY == <<94, 120, 46, 121>>
PermUpperXY == <<88, 46, 89>>
Nether == <<110, 101, 116, 104, 101, 114>>

\* A module file: the maps under its groups, weights and permissions keys.
Module(groups, weights, permissions) ==
    [groups |-> groups, weights |-> weights, permissions |-> permissions]

\* The module files a directory may hold:
\*   groups: {B: [a, default]},  weights: {B: 1}
\*   groups: {B: [default, a]},  weights: {B: 0}
\*   permissions: {a: [x.y]}
\*   permissions: {a: [^x.y]}
\*   permissions: {b: [X.Y]}
ModuleFiles ==
    { Module(GroupB :> <<GroupA, GroupDefault>>, GroupB :> 1, <<>>),
      Module(GroupB :> <<GroupDefault, GroupA>>, GroupB :> 0, <<>>),
      Module(<<>>, <<>>, GroupA :> <<PermXY>>),
      Module(<<>>, <<>>, GroupA :> <<PermNotXY>>),
      Module(<<>>, <<>>, GroupLowerB :> <<PermUpperXY>>) }

Plugins == {"bPermissions", "LuckPerms"}

\* The --world values tried: the default, every world, one named world.
WorldArgs == {DefaultWorld, AllWorlds, Nether}

\* The runs without --list, --output-modules and --update: the commands are
\* printed and not sent.
Init ==
    /\ pc = "load"
    /\ args \in [plugin : Plugins, world : WorldArgs, delete : BOOLEAN, add : BOOLEAN,
                 list : {FALSE}, export : {FALSE}, update : {FALSE}]
    /\ \E modules \in SeqsUpTo(ModuleFiles, MaxModules) :
          \/ files = [modules |-> modules, worlds |-> <<>>]
          \/ \E sub \in SeqsUpTo(ModuleFiles, MaxModules - Len(modules)) :
                files = [modules |-> modules, worlds |-> (Nether :> sub)]
    /\ contextMap = <<>>
    /\ todo = <<>>
    /\ out = <<>>
    /\ err = <<>>
    /\ produced = [listed |-> <<>>, written |-> <<>>]
    /\ exit = ""
    /\ NoCall

\* The worlds a delete or add phase handles, in order: for 'all' the default
\* context, then the others sorted by name; otherwise the world asked for.
WorldsOf(map, world) ==
    IF world = AllWorlds
    THEN <<DefaultWorld>> \o SortedByKey(DOMAIN map \ {DefaultWorld},
                                         PlainKey(DOMAIN map \ {DefaultWorld}))
    ELSE <<world>>

\* The phase that follows `phase` on this command line: __main__ lists,
\* exports, deletes and adds, in this order, as the options ask.
PhaseAfter(phase, a) ==
    IF phase = "load" /\ a.list THEN "list"
    ELSE IF phase \in {"load", "list"} /\ a.export THEN "export"
    ELSE IF phase \in {"load", "list", "export"} /\ a.delete THEN "delete"
    ELSE IF phase \in {"load", "list", "export", "delete"} /\ a.add THEN "add"
    ELSE "done"

\* The worlds the phase has to handle when it begins.
TodoFor(phase, map, a) ==
    IF phase \in {"delete", "add"} THEN WorldsOf(map, a.world) ELSE <<>>

\* The error that loadContextMap prints, without ending the run, for a
\* context name that is no sub-directory of the module directory.
loadContextMapErrors(contextName, dir) ==
    IF contextName /= AllWorlds /\ contextName /= DefaultWorld
          /\ contextName \notin DOMAIN dir.worlds
    THEN <<[op |-> "ERROR", group |-> <<>>,
            arg |-> "context is not a sub-directory of module directory",
            world |-> contextName]>>
    ELSE <<>>

\* contextMap = loadContextMap(args.world, args.input_modules, args.modules)
LoadContextMap ==
    /\ pc = "load"
    /\ LET loaded == loadContextMap(args.world, files)
       IN  IF loaded.ok
           THEN /\ contextMap' = loaded.value
                /\ pc' = PhaseAfter("load", args)
                /\ todo' = TodoFor(pc', loaded.value, args)
                /\ err' = err \o loadContextMapErrors(args.world, files)
                /\ exit' = exit
           ELSE /\ pc' = "exit"
                /\ exit' = loaded.error
                /\ UNCHANGED <<contextMap, todo, err>>
    /\ UNCHANGED <<args, files, out, produced, fnVars>>

\* listPermissions(context): the sections printed, those of the maps that
\* are not empty.
listPermissions(context) ==
    SelectSeq(<< [title |-> "Groups", body |-> context.groups],
                 [title |-> "Weights", body |-> context.weights],
                 [title |-> "Permissions", body |-> context.permissions] >>,
              LAMBDA section : DOMAIN section.body /= {})

\* if args.list: listPermissions(contextMap[args.world])
ListPermissions ==
    /\ pc = "list"
    /\ IF args.world \notin DOMAIN contextMap
       THEN /\ pc' = "exit"
            /\ exit' = "KeyError"
            /\ UNCHANGED <<todo, produced>>
       ELSE /\ produced' = [produced EXCEPT
                               !.listed = listPermissions(contextMap[args.world])]
            /\ pc' = PhaseAfter("list", args)
            /\ todo' = TodoFor(pc', contextMap, args)
            /\ exit' = exit
    /\ UNCHANGED <<args, files, contextMap, out, err, fnVars>>

\* Number of commands of a run that mark2 fails to send.
MaxFailures == 1

IsSendFailure(line) == line.op = "ERROR" /\ line.arg = "failed to send to mark2"

\* The commands of a call that os.system may return a non-zero status for:
\* none without --update, where commands are printed and not sent.
FailureSets(n, doChange, reported) ==
    IF doChange
    THEN {failing \in SUBSET (1..n) :
             Cardinality(failing) + Len(SelectSeq(reported, IsSendFailure)) <= MaxFailures}
    ELSE {{}}

\* The elements of a set of numbers in ascending order.
Ascending(F) ==
    [k \in 1..Cardinality(F) |->
        CHOOSE i \in F : Cardinality({j \in F : j < i}) = k - 1]

\* error('failed to send to mark2: ...') for the command at position `at`
\* of out.
SendFailure(at) ==
    [op |-> "ERROR", group |-> <<>>, arg |-> "failed to send to mark2", world |-> <<>>,
     at |-> at]

\* A send that ends the batch at the first command mark2 fails to send.
sendAllUntilFailure(commands, failing, base) ==
    IF failing = {} THEN [out |-> commands, err |-> <<>>]
    ELSE [out |-> SubSeq(commands, 1, Ascending(failing)[1]),
          err |-> <<SendFailure(base + Ascending(failing)[1])>>]

\* Server.send for each command of a call in turn: the command is printed,
\* then sent; a non-zero status is reported and the next command follows.
\* base is the number of commands printed before.
sendAll(commands, failing, base) ==
    [out |-> commands,
     err |-> [k \in 1..Cardinality(failing) |-> SendFailure(base + Ascending(failing)[k])]]

\* One call server.deletePermissions(contextMap, world) of `if args.delete:`.
DeletePermissions ==
    /\ pc = "delete"
    /\ LET world == Head(todo)
       IN  IF world \notin DOMAIN contextMap
           THEN /\ pc' = "exit"
                /\ exit' = "KeyError"
                /\ UNCHANGED <<todo, out, err>>
           ELSE LET done == deletePermissions(args.plugin, contextMap, world)
                    commands == SelectSeq(done.out, LAMBDA line : ~IsWarning(line))
                    warnings == SelectSeq(done.out, IsWarning)
                IN  /\ \E failing \in FailureSets(Len(commands), args.update, err) :
                           LET sent == sendAll(commands, failing, Len(out))
                           IN  /\ out' = out \o sent.out
                               /\ err' = err \o warnings \o sent.err
                    /\ pc' = IF Tail(todo) /= <<>> THEN "delete"
                             ELSE PhaseAfter("delete", args)
                    /\ todo' = IF Tail(todo) /= <<>> THEN Tail(todo)
                               ELSE TodoFor(pc', contextMap, args)
                    /\ exit' = exit
    /\ UNCHANGED <<args, files, contextMap, produced, fnVars>>

\* One call server.updatePermissions(contextMap, world) of `if args.add:`.
UpdatePermissions ==
    /\ pc = "add"
    /\ LET world == Head(todo)
       IN  IF world \notin DOMAIN contextMap
           THEN /\ pc' = "exit"
                /\ exit' = "KeyError"
                /\ UNCHANGED <<todo, out, err>>
           ELSE LET done == updatePermissions(args.plugin, contextMap, world)
                    commands == SelectSeq(done.out, LAMBDA line : ~IsWarning(line))
                    warnings == SelectSeq(done.out, IsWarning)
                IN  /\ \E failing \in FailureSets(Len(commands), args.update, err) :
                           LET sent == sendAll(commands, failing, Len(out))
                           IN  /\ out' = out \o sent.out
                               /\ err' = err \o warnings \o sent.err
                    /\ IF ~done.ok
                       THEN /\ pc' = "exit"
                            /\ exit' = done.error
                            /\ todo' = todo
                       ELSE /\ pc' = IF Tail(todo) /= <<>> THEN "add" ELSE "done"
                            /\ todo' = Tail(todo)
                            /\ exit' = exit
    /\ UNCHANGED <<args, files, contextMap, produced, fnVars>>

Next == LoadContextMap \/ DeletePermissions \/ UpdatePermissions

Spec == Init /\ [][Next]_vars

(***************************************************************************)
(* Claims about the run                                                    *)
(***************************************************************************)

\* The commands that create and that delete a group, on either sink.
IsCreateGroup(command) == command.op \in {"lp creategroup", "group"}
IsDeleteGroup(command) == command.op = "lp deletegroup"

\* C3 as stated: no run ever issues a createGroup or a deleteGroup command
\* for a group whose name is 'default' in any letter case.
C3_DefaultNeverCreatedOrDeleted ==
    \A i \in 1..Len(out) :
        (IsCreateGroup(out[i]) \/ IsDeleteGroup(out[i])) => ~IsDefaultGroup(out[i].group)

\* Some group of a loaded context has a permission list that holds a node
\* and the negation of that node.
ConflictingList(perms) == Granted(perms) \cap Denied(perms) /= {}
HasConflictingList(map) ==
    \E world \in DOMAIN map : \E g \in DOMAIN map[world].permissions :
        ConflictingList(map[world].permissions[g])

\* C4 as stated, for the runs that add permissions: a run whose loaded
\* contexts hold a group with a node and its negation does not complete; it
\* fails with ConflictingPermissionError.
C4_ConflictIsFatal ==
    (args /= <<>> /\ args.add /\ HasConflictingList(contextMap)) =>
        /\ pc /= "done"
        /\ pc = "exit" => exit = "ConflictingPermissionError"

\* C5 as stated: a run that ends with NameCaseConflict,
\* ConflictingPermissionError or DuplicateWeightError has issued no command.
C5_StructuralErrorsBeforeOutput ==
    exit \in {"NameCaseConflict", "ConflictingPermissionError", "DuplicateWeightError"}
        => out = <<>>

\* The world whose LuckPerms add against the default context has finished.
MinimisedWorlds ==
    IF pc = "done" /\ args.add /\ args.plugin = "LuckPerms"
    THEN DOMAIN contextMap \ {DefaultWorld}
    ELSE {}

\* C9 as stated: minimising a world against the default context issues no
\* parent-add for a group whose parents in the world are the same set as its
\* parents in the default context, whatever their order.
C9_ParentsComparedByValue ==
    \A world \in MinimisedWorlds :
        \A g \in DOMAIN contextMap[world].groups \cap DOMAIN contextMap[DefaultWorld].groups :
            Range(contextMap[world].groups[g]) = Range(contextMap[DefaultWorld].groups[g])
                => ~\E i \in 1..Len(out) :
                       /\ out[i].op = "lp group parent add"
                       /\ out[i].group = g
                       /\ out[i].world = world

\* C10 as stated: minimising a world against the default context issues a
\* weight-set for a group exactly when the world declares a weight for it
\* that is not the default context's weight for it (none included), 0 too.
C10_WeightSetExactlyWhenDifferent ==
    \A world \in MinimisedWorlds :
        \A g \in DOMAIN contextMap[world].groups :
            (\E i \in 1..Len(out) :
                /\ out[i].op = "lp group setweight"
                /\ out[i].group = g
                /\ out[i].world = world)
            <=> (/\ g \in DOMAIN contextMap[world].weights
                 /\ GetWeight(contextMap[world].weights, g)
                        /= GetWeight(contextMap[DefaultWorld].weights, g))

(***************************************************************************)
(* Claims about deletion                                                   *)
(***************************************************************************)

\* A run that only deleted the context `world` on the LuckPerms sink and
\* has finished: out holds the commands of that one deletePermissions call.
DeletedOnly(world) ==
    /\ pc = "done"
    /\ args.plugin = "LuckPerms"
    /\ args.delete /\ ~args.add
    /\ args.world = world

\* out holds a command `op` for group g with this world clause.
Emitted(op, g, world) ==
    \E i \in 1..Len(out) :
        out[i].op = op /\ out[i].group = g /\ out[i].world = world

\* C11 as stated: deleting a non-default context clears every group it
\* shares with the default context and deletes every group unique to it; it
\* deletes no group of the default context and clears no group that the
\* deleted context lacks.
C11_DeleteWorldClearsSharedOnly ==
    DeletedOnly(Nether) =>
        LET defaultGroups == DOMAIN contextMap[DefaultWorld].groups
            worldGroups == DOMAIN contextMap[Nether].groups
        IN  /\ \A g \in worldGroups \cap defaultGroups : Emitted("lp group clear", g, Nether)
            /\ \A g \in worldGroups \ defaultGroups : Emitted("lp deletegroup", g, <<>>)
            /\ \A i \in 1..Len(out) :
                  /\ out[i].op = "lp deletegroup" => out[i].group \notin defaultGroups
                  /\ out[i].op = "lp group clear" => out[i].group \in worldGroups

\* C12 as stated: deleting the default context issues clear-permissions
\* commands only, and a deleteGroup command for no group.
C12_DeleteDefaultOnlyClears ==
    DeletedOnly(DefaultWorld) =>
        \A i \in 1..Len(out) : out[i].op = "lp group clear"

\* C12 as amended: deleting the default context issues one command for each
\* of its groups: a clear-permissions for the group named 'default' (in any
\* letter case), a deleteGroup for every other group.
C12_DeleteDefaultDeletesOtherGroups ==
    DeletedOnly(DefaultWorld) =>
        LET defaultGroups == DOMAIN contextMap[DefaultWorld].groups
        IN  /\ Len(out) = Cardinality(defaultGroups)
            /\ \A g \in defaultGroups :
                  IF IsDefaultGroup(g)
                  THEN Emitted("lp group clear", g, <<>>)
                  ELSE Emitted("lp deletegroup", g, <<>>)

\* The default context with groups a, B and default was deleted: B was
\* deleted, default was cleared.
C12_Witness ==
    /\ DeletedOnly(DefaultWorld)
    /\ Emitted("lp deletegroup", GroupB, <<>>)
    /\ Emitted("lp group clear", GroupDefault, <<>>)

(***************************************************************************)
(* Ancestors of a group: allAncestors, as the export uses it               *)
(***************************************************************************)

\* result.reverse()
Reverse(s) == [i \in 1..Len(s) |-> s[Len(s) + 1 - i]]

\* allAncestors(group, groups)
allAncestors(group, groups) ==
    LET result == depthFirstPostOrderTraversal(group, groups,
                      [seen |-> {}, result |-> <<>>]).result
        reversed == Reverse(result)
    IN  SubSeq(reversed, 2, Len(reversed))

\* Every groups map over the four names with at most MaxEdges parent
\* references, and every group of it.
InitAncestors ==
    /\ pc = "call"
    /\ \E group \in OrderNames :
       \E pa \in SeqsUpTo(OrderNames, MaxEdges) :
       \E pB \in SeqsUpTo(OrderNames, MaxEdges - Len(pa)) :
       \E pc0 \in SeqsUpTo(OrderNames, MaxEdges - Len(pa) - Len(pB)) :
       \E pD \in SeqsUpTo(OrderNames, MaxEdges - Len(pa) - Len(pB) - Len(pc0)) :
           fnArgs = [group |-> group,
                     groups |-> (<<97>> :> pa) @@ (<<66>> :> pB)
                                    @@ (<<99>> :> pc0) @@ (<<68>> :> pD)]
    /\ fnResult = <<>>
    /\ NoRun

CallAllAncestors ==
    /\ pc = "call"
    /\ pc' = "return"
    /\ fnResult' = allAncestors(fnArgs.group, fnArgs.groups)
    /\ UNCHANGED <<fnArgs, runVars>>

NextAncestors == CallAllAncestors

SpecAncestors == InitAncestors /\ [][NextAncestors]_vars

\* The inheritance distance of x from the groups of `frontier`, which are at
\* distance d: the length of the shortest parent chain that reaches x.
RECURSIVE DistanceFrom(_, _, _, _, _)
DistanceFrom(groups, frontier, found, x, d) ==
    LET next == UNION {Range(groups[y]) : y \in frontier} \ found
    IN  IF x \in next THEN d + 1
        ELSE IF next = {} THEN 0
        ELSE DistanceFrom(groups, next, found \cup next, x, d + 1)

Distance(groups, g, x) == DistanceFrom(groups, {g}, {}, x, 0)

\* allAncestors returned for an acyclic groups map.
AncestorsReturned ==
    /\ pc = "return"
    /\ ParentsAreKeys(fnArgs.groups)
    /\ Acyclic(fnArgs.groups)

\* C14 as stated: for an acyclic groups map the result lists the transitive
\* ancestors of the group, each once and without the group, and no ancestor
\* stands before an ancestor at a smaller inheritance distance.
C14_AncestorsNearestFirst ==
    AncestorsReturned =>
        /\ Range(fnResult) = Ancestors(fnArgs.groups, fnArgs.group)
        /\ Len(fnResult) = Cardinality(Range(fnResult))
        /\ \A i, j \in 1..Len(fnResult) :
              i < j => Distance(fnArgs.groups, fnArgs.group, fnResult[i])
                          <= Distance(fnArgs.groups, fnArgs.group, fnResult[j])

\* What the result does satisfy: the ancestors, each once, and every
\* ancestor after the groups of the result that descend from it.
AncestorsDescendantsFirst ==
    AncestorsReturned =>
        /\ Range(fnResult) = Ancestors(fnArgs.groups, fnArgs.group)
        /\ Len(fnResult) = Cardinality(Range(fnResult))
        /\ \A i, j \in 1..Len(fnResult) :
              fnResult[j] \in Ancestors(fnArgs.groups, fnResult[i]) => i < j

(***************************************************************************)
(* Export: writeModuleFiles                                                *)
(***************************************************************************)

\* Total number of parent references in a context given to the export.
MaxExportEdges == 2

\* Total number of permission tokens in a context given to the export.
MaxExportPerms == 3

\* The groups "a", "B", "c" and the tokens "x.y", "^x.y" of those contexts.
ExportNames == {<<97>>, <<66>>, <<99>>}
ExportXY == <<120, 46, 121>>
ExportTokens == {ExportXY, <<94>> \o ExportXY}

\* prefix, _, _ = perm.partition('.')
Prefix(perm) ==
    LET dots == {i \in 1..Len(perm) : perm[i] = 46}
    IN  IF dots = {} THEN perm
        ELSE SubSeq(perm, 1, (CHOOSE i \in dots : \A k \in dots : i <= k) - 1)

\* stem: the prefix without its leading '^'.
Stem(perm) == IF IsNegated(Prefix(perm)) THEN StripCaret(Prefix(perm)) ELSE Prefix(perm)

\* inversePerm: perm[1:] where the prefix starts with '^', else '^' + perm.
InversePerm(perm) == IF IsNegated(Prefix(perm)) THEN StripCaret(perm) ELSE <<94>> \o perm

\* A scan of the ancestors that finds the permission on any of them, going
\* on past an ancestor that holds the negation.
RECURSIVE inheritedPermPastNegation(_, _, _, _, _)
inheritedPermPastNegation(perm, inversePerm, ancestors, i, permissions) ==
    IF i > Len(ancestors) THEN FALSE
    ELSE IF perm \in Range(permissions[ancestors[i]]) THEN TRUE
    ELSE inheritedPermPastNegation(perm, inversePerm, ancestors, i + 1, permissions)

\* The loop `for ancestor in allAncestors(groupName, groups)` from the i-th
\* ancestor on: the value of inheritedPerm when the loop ends.
RECURSIVE inheritedPerm(_, _, _, _, _)
inheritedPerm(perm, inversePerm, ancestors, i, permissions) ==
    IF i > Len(ancestors) THEN FALSE
    ELSE IF inversePerm \in Range(permissions[ancestors[i]]) THEN FALSE
    ELSE IF perm \in Range(permissions[ancestors[i]]) THEN TRUE
    ELSE inheritedPerm(perm, inversePerm, ancestors, i + 1, permissions)

\* The permissions of a group that the export keeps, in the group's order.
keptPermissions(groupName, groups, permissions) ==
    SelectSeq(permissions[groupName],
              LAMBDA perm : ~inheritedPerm(perm, InversePerm(perm),
                                           allAncestors(groupName, groups), 1,
                                           permissions))

\* writeModuleFiles(context, outputDirectory): the files written.  GROUPS.yml
\* holds the groups with their parents, and the weights, in natural order;
\* the file of a stem holds, in natural order, the groups that keep a
\* permission of that stem, each with those permissions.
writeModuleFiles(context) ==
    LET groups == context.groups
        weights == context.weights
        permissions == context.permissions
        orderedGroups == naturallyOrderedGroups(groups)
        stems == UNION {{Stem(perm) : perm \in Range(permissions[g])} :
                           g \in Range(orderedGroups)}
        ofStem(g, stem) == SelectSeq(keptPermissions(g, groups, permissions),
                                     LAMBDA perm : Stem(perm) = stem)
    IN  [GROUPS |->
            [groups |-> [i \in 1..Len(orderedGroups) |->
                            <<orderedGroups[i], groups[orderedGroups[i]]>>],
             weights |-> [i \in 1..Len(SelectSeq(orderedGroups,
                                           LAMBDA g : g \in DOMAIN weights)) |->
                            LET g == SelectSeq(orderedGroups,
                                               LAMBDA h : h \in DOMAIN weights)[i]
                            IN  <<g, weights[g]>>]],
         modules |->
            [stem \in stems |->
                LET holders == SelectSeq(orderedGroups,
                                         LAMBDA g : ofStem(g, stem) /= <<>>)
                IN  [i \in 1..Len(holders) |->
                        [group |-> holders[i],
                         permissions |-> ofStem(holders[i], stem)]]]]

\* Every context over the three groups with at most MaxExportEdges parent
\* references (cycles included: the loader does not reject them) and at
\* most MaxExportPerms permission tokens (a token and its negation on one
\* group included: only a LuckPerms world add rejects them), with a weight
\* for group a and none for the others.
InitExport ==
    /\ pc = "call"
    /\ \E pa \in SeqsUpTo(ExportNames, MaxExportEdges) :
       \E pB \in SeqsUpTo(ExportNames, MaxExportEdges - Len(pa)) :
       \E pc0 \in SeqsUpTo(ExportNames, MaxExportEdges - Len(pa) - Len(pB)) :
       \E ma \in SeqsUpTo(ExportTokens, MaxExportPerms) :
       \E mB \in SeqsUpTo(ExportTokens, MaxExportPerms - Len(ma)) :
       \E mc \in SeqsUpTo(ExportTokens, MaxExportPerms - Len(ma) - Len(mB)) :
           fnArgs = [context |->
                        [groups |-> (<<97>> :> pa) @@ (<<66>> :> pB) @@ (<<99>> :> pc0),
                         weights |-> (<<97>> :> 1),
                         permissions |-> (<<97>> :> ma) @@ (<<66>> :> mB) @@ (<<99>> :> mc)]]
    /\ fnResult = <<>>
    /\ NoRun

CallWriteModuleFiles ==
    /\ pc = "call"
    /\ pc' = "return"
    /\ fnResult' = writeModuleFiles(fnArgs.context)
    /\ UNCHANGED <<fnArgs, runVars>>

NextExport == CallWriteModuleFiles

SpecExport == InitExport /\ [][NextExport]_vars

\* The permissions the written module files give to group g.
Exported(g) ==
    UNION {UNION {Range(fnResult.modules[stem][i].permissions) :
                     i \in {j \in 1..Len(fnResult.modules[stem]) :
                               fnResult.modules[stem][j].group = g}} :
              stem \in DOMAIN fnResult.modules}

\* The same node with the other sign.
Opposite(perm) == IF IsNegated(perm) THEN StripCaret(perm) ELSE <<94>> \o perm

\* The ancestors of g in allAncestors order, and the positions of those
\* that hold perm or its opposite.
ScannedAncestors(g) == allAncestors(g, fnArgs.context.groups)
Deciders(g, perm) ==
    {i \in 1..Len(ScannedAncestors(g)) :
        Range(fnArgs.context.permissions[ScannedAncestors(g)[i]])
            \cap {perm, Opposite(perm)} /= {}}
FirstDecider(g, perm) ==
    ScannedAncestors(g)[CHOOSE i \in Deciders(g, perm) : \A k \in Deciders(g, perm) : i <= k]

\* C13: a permission of a group is omitted from its exported permissions
\* exactly when the first ancestor, in allAncestors order, that holds the
\* permission or its negation holds the permission with the same sign; when
\* it holds the negation (be it next to the permission itself), or when no
\* ancestor holds either, the permission is kept on the group.
C13_FirstAncestorDecides ==
    pc = "return" =>
        \A g \in DOMAIN fnArgs.context.groups :
            \A perm \in Range(fnArgs.context.permissions[g]) :
                perm \notin Exported(g)
                    <=> /\ Deciders(g, perm) /= {}
                        /\ perm \in Range(fnArgs.context.permissions[FirstDecider(g, perm)])
                        /\ Opposite(perm) \notin
                               Range(fnArgs.context.permissions[FirstDecider(g, perm)])

\* a: [], B: [a] with x.y on both: x.y is kept on a and omitted from B.
C13_Witness ==
    /\ pc = "return"
    /\ fnArgs.context.groups = (<<97>> :> <<>>) @@ (<<66>> :> <<<<97>>>>) @@ (<<99>> :> <<>>)
    /\ fnArgs.context.permissions =
          (<<97>> :> <<ExportXY>>) @@ (<<66>> :> <<ExportXY>>) @@ (<<99>> :> <<>>)
    /\ Exported(<<97>>) = {ExportXY}
    /\ Exported(<<66>>) = {}

(***************************************************************************)
(* The merge functions on their own                                        *)
(***************************************************************************)

\* Length of a list given to mergeGroups or to mergePermissions.
MaxMergeLen == 3

\* Group names "a", "B", "c" and permission tokens "a", "A", "^a", "b".
MergeNames == {<<97>>, <<66>>, <<99>>}
MergeTokens == {<<97>>, <<65>>, <<94, 97>>, <<98>>}

\* Two parent lists for mergeGroups, or two permission lists, each possibly
\* None, for mergePermissions.
InitMerge ==
    /\ pc = "call"
    /\ \/ \E a, b \in SeqsUpTo(MergeNames, MaxMergeLen) :
             fnArgs = [fn |-> "mergeGroups", a |-> a, b |-> b]
       \/ \E a, b \in {<<>>} \cup {<<l>> : l \in SeqsUpTo(MergeTokens, MaxMergeLen)} :
             fnArgs = [fn |-> "mergePermissions", a |-> a, b |-> b]
    /\ fnResult = <<>>
    /\ NoRun

CallMergeGroups ==
    /\ pc = "call"
    /\ fnArgs.fn = "mergeGroups"
    /\ pc' = "return"
    /\ fnResult' = mergeGroups(fnArgs.a, fnArgs.b)
    /\ UNCHANGED <<fnArgs, runVars>>

CallMergePermissions ==
    /\ pc = "call"
    /\ fnArgs.fn = "mergePermissions"
    /\ pc' = "return"
    /\ fnResult' = mergePermissions(fnArgs.a, fnArgs.b)
    /\ UNCHANGED <<fnArgs, runVars>>

NextMerge == CallMergeGroups \/ CallMergePermissions

SpecMerge == InitMerge /\ [][NextMerge]_vars

\* No element stands at two positions of the sequence.
NoDuplicates(s) == \A i, j \in 1..Len(s) : s[i] = s[j] => i = j

\* C16 as stated: mergeGroups(a, b) starts with a in a's order, holds every
\* element of b, and holds no element more than once.
C16_MergeGroupsNoDuplicates ==
    (pc = "return" /\ fnArgs.fn = "mergeGroups") =>
        /\ Len(fnResult) >= Len(fnArgs.a)
        /\ SubSeq(fnResult, 1, Len(fnArgs.a)) = fnArgs.a
        /\ Range(fnArgs.b) \subseteq Range(fnResult)
        /\ NoDuplicates(fnResult)

\* What holds of mergeGroups for all lists: a is the prefix, the elements
\* are those of a and b, and the elements appended are not in a.
MergeGroupsKeepsPrefix ==
    (pc = "return" /\ fnArgs.fn = "mergeGroups") =>
        /\ Len(fnResult) >= Len(fnArgs.a)
        /\ SubSeq(fnResult, 1, Len(fnArgs.a)) = fnArgs.a
        /\ Range(fnResult) = Range(fnArgs.a) \cup Range(fnArgs.b)
        /\ \A i \in (Len(fnArgs.a) + 1)..Len(fnResult) : fnResult[i] \notin Range(fnArgs.a)
        /\ (NoDuplicates(fnArgs.a) /\ NoDuplicates(fnArgs.b)) => NoDuplicates(fnResult)

\* C17: mergePermissions is commutative; merging its result with either
\* operand again gives the result; merging a list with itself gives its
\* lower-cased tokens, sorted, each once; the result is always sorted
\* without duplicates and in lower case; None is taken as the empty list.
C17_MergePermissionsAlgebra ==
    (pc = "return" /\ fnArgs.fn = "mergePermissions") =>
        /\ fnResult = mergePermissions(fnArgs.b, fnArgs.a)
        /\ mergePermissions(<<fnResult>>, fnArgs.a) = fnResult
        /\ mergePermissions(fnArgs.b, <<fnResult>>) = fnResult
        /\ \A i, j \in 1..Len(fnResult) : i < j => StrLess(fnResult[i], fnResult[j])
        /\ \A i \in 1..Len(fnResult) : Lower(fnResult[i]) = fnResult[i]
        /\ Range(fnResult) = {Lower(t) : t \in Range(OrEmpty(fnArgs.a)) \cup Range(OrEmpty(fnArgs.b))}
        /\ fnResult = mergePermissions(<<OrEmpty(fnArgs.a)>>, <<OrEmpty(fnArgs.b)>>)

\* [b, A, a] merged with itself gave [a, b].
C17_WitnessSelfMerge ==
    /\ pc = "return"
    /\ fnArgs.fn = "mergePermissions"
    /\ fnArgs.a = <<<< <<98>>, <<65>>, <<97>> >>>>
    /\ fnArgs.b = fnArgs.a
    /\ fnResult = << <<97>>, <<98>> >>

(***************************************************************************)
(* Claims about the loaded contexts of a run                               *)
(***************************************************************************)

\* C15 as stated: in every loaded context every group's permission list is
\* in lower case and in sorted order, however many modules mention the group.
C15_PermissionsLowerSorted ==
    \A world \in DOMAIN contextMap :
        \A g \in DOMAIN contextMap[world].permissions :
            LET perms == contextMap[world].permissions[g]
            IN  /\ \A i \in 1..Len(perms) : Lower(perms[i]) = perms[i]
                /\ \A i, j \in 1..Len(perms) : i < j => StrLess(perms[i], perms[j])

\* What holds: the list of a group that two or more modules of the context
\* give permissions to is in lower case and sorted.
PermissionsOfMergedGroupsLowerSorted ==
    \A world \in DOMAIN contextMap :
        \A g \in DOMAIN contextMap[world].permissions :
            LET perms == contextMap[world].permissions[g]
                modules == IF world = DefaultWorld THEN files.modules ELSE files.worlds[world]
            IN  Cardinality({i \in 1..Len(modules) : g \in DOMAIN modules[i].permissions}) >= 2
                => /\ \A i \in 1..Len(perms) : Lower(perms[i]) = perms[i]
                   /\ \A i, j \in 1..Len(perms) : i < j => StrLess(perms[i], perms[j])

\* The group names a list of module files mentions: as a groups key, as a
\* parent, as a weights key or as a permissions key.
Mentions(modules) ==
    UNION {DOMAIN modules[i].groups \cup DOMAIN modules[i].weights
              \cup DOMAIN modules[i].permissions
              \cup UNION {Range(modules[i].groups[g]) : g \in DOMAIN modules[i].groups} :
           i \in 1..Len(modules)}

\* The module files of the contexts this run loads: the default context
\* and, for --world all or --world <name>, the world sub-directories asked for.
LoadedModules ==
    {files.modules} \cup
    {files.worlds[w] : w \in {v \in DOMAIN files.worlds :
                                 args.world = AllWorlds \/ args.world = v}}

\* Two of the names are one name in two letter cases.
CaseConflict(names) == \E x, y \in names : x /= y /\ Lower(x) = Lower(y)

\* C19 as stated: a run whose inputs spell a group name in two letter cases,
\* be it in two contexts, does not get past loading: it fails with
\* NameCaseConflict (or has failed on an earlier module before that).
C19_CaseConflictIsFatal ==
    (pc /= "load" /\ CaseConflict(UNION {Mentions(modules) : modules \in LoadedModules}))
        => /\ pc = "exit"
           /\ exit \in {"NameCaseConflict", "DuplicateWeightError", "NoModuleFiles"}

\* What holds: two spellings inside one loaded context are fatal.
CaseConflictInOneContextIsFatal ==
    (pc /= "load" /\ \E modules \in LoadedModules : CaseConflict(Mentions(modules)))
        => /\ pc = "exit"
           /\ exit \in {"NameCaseConflict", "DuplicateWeightError", "NoModuleFiles"}

(***************************************************************************)
(* loadModules on its own: the module files of one directory are merged    *)
(* into a context.                                                         *)
(***************************************************************************)

\* The module files of the run, and two that give a weight to a group
\* they do not otherwise mention:
\*   weights: {a: 2}
\*   weights: {b: 1}
LoadModuleFiles ==
    ModuleFiles \cup { Module(<<>>, GroupA :> 2, <<>>),
                       Module(<<>>, GroupLowerB :> 1, <<>>) }

InitLoad ==
    /\ pc = "call"
    /\ \E modules \in SeqsUpTo(LoadModuleFiles, MaxModules) :
           fnArgs = [modules |-> modules]
    /\ fnResult = <<>>
    /\ NoRun

CallLoadModules ==
    /\ pc = "call"
    /\ pc' = "return"
    /\ fnResult' = loadModules(fnArgs.modules)
    /\ UNCHANGED <<fnArgs, runVars>>

NextLoad == CallLoadModules

SpecLoad == InitLoad /\ [][NextLoad]_vars

\* The group names a context holds: its groups, weights and permissions
\* keys and the parents in its parent lists.
NamesOf(context) ==
    DOMAIN context.groups \cup DOMAIN context.weights \cup DOMAIN context.permissions
        \cup UNION {Range(context.groups[g]) : g \in DOMAIN context.groups}

\* C18: every context that makeContext returns has, for every group name
\* that occurs as a groups key, as a parent, as a weights key or as a
\* permissions key, an entry in groups (the empty list where no module
\* declared parents for it) and an entry in permissions.
C18_ContextClosed ==
    (pc = "return" /\ fnResult.ok) =>
        LET context == fnResult.value
            names == Mentions(fnArgs.modules) \cup NamesOf(context)
        IN  /\ names \subseteq DOMAIN context.groups
            /\ names \subseteq DOMAIN context.permissions
            /\ \A g \in names :
                  (\A i \in 1..Len(fnArgs.modules) : g \notin DOMAIN fnArgs.modules[i].groups)
                      => context.groups[g] = <<>>

\* {groups: {B: [a, default]}, weights: {B: 1}} and {weights: {a: 2}} were
\* loaded: default, only ever a parent, and a, a parent and a weights key,
\* have an empty parent list, and every group an empty permission list.
C18_Witness ==
    /\ pc = "return"
    /\ fnResult.ok
    /\ fnArgs.modules = << Module(GroupB :> <<GroupA, GroupDefault>>, GroupB :> 1, <<>>),
                           Module(<<>>, GroupA :> 2, <<>>) >>
    /\ fnResult.value.groups[GroupDefault] = <<>>
    /\ fnResult.value.groups[GroupA] = <<>>
    /\ fnResult.value.permissions[GroupDefault] = <<>>
    /\ fnResult.value.permissions[GroupB] = <<>>

\* Some group is a weights key of two of the module files.
WeightDeclaredTwice(modules) ==
    \E i, j \in 1..Len(modules) :
        i < j /\ DOMAIN modules[i].weights \cap DOMAIN modules[j].weights /= {}

\* C20: loading fails with DuplicateWeightError exactly when some group is
\* a weights key in two of the context's modules, equal values or not; when
\* it returns a context, the weights are the union of the declared weights.
C20_DuplicateWeightIsFatal ==
    pc = "return" =>
        /\ (~fnResult.ok /\ fnResult.error = "DuplicateWeightError")
              <=> WeightDeclaredTwice(fnArgs.modules)
        /\ fnResult.ok =>
              /\ DOMAIN fnResult.value.weights =
                    UNION {DOMAIN fnArgs.modules[i].weights : i \in 1..Len(fnArgs.modules)}
              /\ \A i \in 1..Len(fnArgs.modules) :
                    \A g \in DOMAIN fnArgs.modules[i].weights :
                        fnResult.value.weights[g] = fnArgs.modules[i].weights[g]

\* Two modules that both declare weights: {B: 1} ended the load.
C20_Witness ==
    /\ pc = "return"
    /\ Len(fnArgs.modules) = 2
    /\ fnArgs.modules[1] = fnArgs.modules[2]
    /\ fnArgs.modules[1].weights = (GroupB :> 1)
    /\ ~fnResult.ok
    /\ fnResult.error = "DuplicateWeightError"

(***************************************************************************)
(* The traversal step by step: depthFirstPostOrderTraversal as its callers *)
(* run it, one loop iteration or one return per step, with the call stack  *)
(* explicit.  While pc = "traverse", fnResult holds seenNodes, the result  *)
(* list, the roots still to traverse and the stack of active calls, each   *)
(* with its node and the index i of the dependency its loop is at.         *)
(***************************************************************************)

\* Total number of parent references in a groups map traversed step by step.
MaxTraverseEdges == 3

\* The depth of recursion at which Python raises a RecursionError
\* (sys.getrecursionlimit(), 1000 by default), scaled to the three groups.
RecursionLimit == 6

\* The groups "a", "B", "c".
TraverseNames == {<<97>>, <<66>>, <<99>>}

\* Every groups map over the three names with at most MaxTraverseEdges
\* parent references, handed to naturallyOrderedGroups or, with one of its
\* groups, to allAncestors.
InitTraverse ==
    /\ pc = "call"
    /\ \E pa \in SeqsUpTo(TraverseNames, MaxTraverseEdges) :
       \E pB \in SeqsUpTo(TraverseNames, MaxTraverseEdges - Len(pa)) :
       \E pc0 \in SeqsUpTo(TraverseNames, MaxTraverseEdges - Len(pa) - Len(pB)) :
           LET groups == (<<97>> :> pa) @@ (<<66>> :> pB) @@ (<<99>> :> pc0)
           IN  \/ fnArgs = [fn |-> "naturallyOrderedGroups", groups |-> groups,
                            group |-> <<>>]
               \/ \E group \in TraverseNames :
                     fnArgs = [fn |-> "allAncestors", groups |-> groups, group |-> group]
    /\ fnResult = <<>>
    /\ NoRun

\* The caller sets result = [] and the set of seen nodes, and has its roots
\* to traverse: the sorted groups, or the one group.
StartTraversal ==
    /\ pc = "call"
    /\ pc' = "traverse"
    /\ fnResult' = [seen |-> {}, result |-> <<>>, stack |-> <<>>,
                    roots |-> IF fnArgs.fn = "allAncestors" THEN <<fnArgs.group>>
                              ELSE sortedGroupNames(DOMAIN fnArgs.groups)]
    /\ UNCHANGED <<fnArgs, runVars>>

\* The caller calls depthFirstPostOrderTraversal on its next root.
EnterRoot ==
    /\ pc = "traverse"
    /\ fnResult.stack = <<>>
    /\ fnResult.roots /= <<>>
    /\ fnResult' = [fnResult EXCEPT !.roots = Tail(@),
                                    !.stack = <<[node |-> Head(fnResult.roots), i |-> 1]>>]
    /\ UNCHANGED <<pc, fnArgs, runVars>>

\* The recursive call on a dependency, entered without marking it seen.
descendUnmarked(dependency, st) ==
    [st EXCEPT !.stack = Append(@, [node |-> dependency, i |-> 1])]

\* seenNodes.add(dependency); depthFirstPostOrderTraversal(dependency, ...)
descend(dependency, st) ==
    [st EXCEPT !.seen = @ \cup {dependency},
               !.stack = Append(@, [node |-> dependency, i |-> 1])]

\* One iteration of `for dependency in edges[node]` in the innermost call:
\* a dependency not yet seen is descended into (a RecursionError ends the
\* program where the stack is at its limit), a seen one is passed over.
VisitDependency ==
    /\ pc = "traverse"
    /\ fnResult.stack /= <<>>
    /\ LET depth == Len(fnResult.stack)
           frame == fnResult.stack[depth]
       IN  /\ frame.i <= Len(fnArgs.groups[frame.node])
           /\ LET dependency == fnArgs.groups[frame.node][frame.i]
              IN  IF dependency \in fnResult.seen
                  THEN /\ fnResult' = [fnResult EXCEPT !.stack[depth].i = @ + 1]
                       /\ UNCHANGED <<pc, exit>>
                  ELSE IF depth >= RecursionLimit
                  THEN /\ pc' = "exit"
                       /\ exit' = "RecursionError"
                       /\ UNCHANGED fnResult
                  ELSE /\ fnResult' = descend(dependency, fnResult)
                       /\ UNCHANGED <<pc, exit>>
    /\ UNCHANGED <<fnArgs, args, files, contextMap, todo, out, err, produced>>

\* The innermost call is past its loop: it visits its node unless seen, and
\* returns; the call that made it visits the dependency and moves on.
ReturnFromNode ==
    /\ pc = "traverse"
    /\ fnResult.stack /= <<>>
    /\ LET depth == Len(fnResult.stack)
           frame == fnResult.stack[depth]
           own == IF frame.node \notin fnResult.seen THEN <<frame.node>> ELSE <<>>
       IN  /\ frame.i > Len(fnArgs.groups[frame.node])
           /\ fnResult' =
                 IF depth = 1
                 THEN [fnResult EXCEPT !.seen = @ \cup {frame.node},
                                       !.result = @ \o own,
                                       !.stack = <<>>]
                 ELSE [fnResult EXCEPT !.seen = @ \cup {frame.node},
                                       !.result = @ \o own \o <<frame.node>>,
                                       !.stack = [SubSeq(@, 1, depth - 1)
                                                     EXCEPT ![depth - 1].i = @ + 1]]
    /\ UNCHANGED <<pc, fnArgs, runVars>>

\* The caller has traversed all its roots: naturallyOrderedGroups returns
\* result, allAncestors reverses it and returns result[1:].
ReturnResult ==
    /\ pc = "traverse"
    /\ fnResult.stack = <<>>
    /\ fnResult.roots = <<>>
    /\ pc' = "return"
    /\ fnResult' = IF fnArgs.fn = "allAncestors"
                   THEN SubSeq(Reverse(fnResult.result), 2, Len(fnResult.result))
                   ELSE fnResult.result
    /\ UNCHANGED <<fnArgs, runVars>>

NextTraverse ==
    StartTraversal \/ EnterRoot \/ VisitDependency \/ ReturnFromNode \/ ReturnResult

SpecTraverse == InitTraverse /\ [][NextTraverse]_vars

\* The program runs on as long as it has a step to take.
SpecTraverseFair == SpecTraverse /\ WF_vars(NextTraverse)

\* The step-by-step traversal returns what the functions above return.
StepwiseAgrees ==
    pc = "return" =>
        fnResult = IF fnArgs.fn = "allAncestors"
                   THEN allAncestors(fnArgs.group, fnArgs.groups)
                   ELSE naturallyOrderedGroups(fnArgs.groups)

\* C21 as stated: on a groups map with a cycle, a group that is its own
\* parent included, the traversal never returns a result.
C21_CycleNeverReturns ==
    pc = "return" => Acyclic(fnArgs.groups)

\* C21 as amended: on a groups map with a cycle the traversal of either
\* caller comes to an end and the caller returns its result.
C21_CycleReturns ==
    (pc = "call" /\ ~Acyclic(fnArgs.groups)) ~> (pc = "return")

\* naturallyOrderedGroups returned a, B, c for a: [a], B: [c], c: [B].
C21_Witness ==
    /\ pc = "return"
    /\ fnArgs.fn = "naturallyOrderedGroups"
    /\ fnArgs.groups = (<<97>> :> <<<<97>>>>) @@ (<<66>> :> <<<<99>>>>) @@ (<<99>> :> <<<<66>>>>)
    /\ fnResult = << <<97>>, <<66>>, <<99>> >>

(***************************************************************************)
(* The run with every option: --list, --output-modules and --update too    *)
(***************************************************************************)

\* if args.output_modules: writeModuleFiles(contextMap[args.world], ...)
WriteModuleFiles ==
    /\ pc = "export"
    /\ IF args.world \notin DOMAIN contextMap
       THEN /\ pc' = "exit"
            /\ exit' = "KeyError"
            /\ UNCHANGED <<todo, produced>>
       ELSE /\ produced' = [produced EXCEPT
                               !.written = <<writeModuleFiles(contextMap[args.world])>>]
            /\ pc' = PhaseAfter("export", args)
            /\ todo' = TodoFor(pc', contextMap, args)
            /\ exit' = exit
    /\ UNCHANGED <<args, files, contextMap, out, err, fnVars>>

\* The module directories tried: one module file in the directory, and
\* none or one in the sub-directory of the nether.
InitAll ==
    /\ pc = "load"
    /\ args \in [plugin : Plugins, world : WorldArgs, delete : BOOLEAN, add : BOOLEAN,
                 list : BOOLEAN, export : BOOLEAN, update : BOOLEAN]
    /\ \E m \in ModuleFiles :
          \/ files = [modules |-> <<m>>, worlds |-> <<>>]
          \/ \E sub \in SeqsUpTo(ModuleFiles, 1) :
                files = [modules |-> <<m>>, worlds |-> (Nether :> sub)]
    /\ contextMap = <<>>
    /\ todo = <<>>
    /\ out = <<>>
    /\ err = <<>>
    /\ produced = [listed |-> <<>>, written |-> <<>>]
    /\ exit = ""
    /\ NoCall

NextAll ==
    \/ LoadContextMap
    \/ ListPermissions
    \/ WriteModuleFiles
    \/ DeletePermissions
    \/ UpdatePermissions

SpecAll == InitAll /\ [][NextAll]_vars

\* The commands of a line sequence: the warnings are no commands.
CommandsIn(lines) == SelectSeq(lines, LAMBDA line : ~IsWarning(line))

\* The commands of a run in which every command is sent: those of the
\* deletion of each world handled, then those of the addition of each.
AllCommands ==
    LET worlds == WorldsOf(contextMap, args.world)
    IN  (IF args.delete
         THEN Flatten([i \in 1..Len(worlds) |->
                  CommandsIn(deletePermissions(args.plugin, contextMap, worlds[i]).out)])
         ELSE <<>>)
        \o (IF args.add
            THEN Flatten([i \in 1..Len(worlds) |->
                     CommandsIn(updatePermissions(args.plugin, contextMap, worlds[i]).out)])
            ELSE <<>>)

SameCommand(a, b) ==
    /\ a.op = b.op
    /\ a.group = b.group
    /\ a.world = b.world
    /\ a.arg = b.arg

SameCommands(s, t) ==
    /\ Len(s) = Len(t)
    /\ \A i \in 1..Len(s) : SameCommand(s[i], t[i])

\* C22: a command that mark2 fails to send, and an operation that
\* bPermissions answers with a warning and no command, do not end the run:
\* a run that ends normally has issued the commands of the run in which
\* every command is sent, in the same order.
C22_FailuresDoNotAbort ==
    pc = "done" => SameCommands(out, AllCommands)

\* A run with bPermissions that deletes and adds with --update: the deletion
\* gave a warning, a command was not sent, and commands follow it.
C22_Witness ==
    /\ pc = "done"
    /\ args.update
    /\ \E i \in 1..Len(err) : IsWarning(err[i])
    /\ \E i \in 1..Len(err) : IsSendFailure(err[i]) /\ err[i].at < Len(out)

\* C23: with --world naming a context that has no sub-directory, the run
\* ends in an error and issues no command, whichever of --list,
\* --output-modules, --delete and --add are given, none included.
C23_MissingContextIsFatal ==
    (args.world = Nether /\ Nether \notin DOMAIN files.worlds)
        => (pc /= "done" /\ out = <<>>)

(***************************************************************************)
(* The order of the commands that add the default context                  *)
(***************************************************************************)

\* The run adds without deleting, and the call that adds the default
\* context, the first of the additions, is the one call made so far: out
\* holds its commands.
DefaultContextAdded ==
    /\ args.add
    /\ ~args.delete
    /\ args.world /= Nether
    /\ pc \in {"add", "done"}
    /\ Len(todo) = Len(WorldsOf(contextMap, args.world)) - 1

IsSetWeight(command) == command.op = "lp group setweight"
IsAddParent(command) == command.op \in {"lp group parent add", "exec a:addgroup"}
IsAddPerm(command) == command.op \in {"lp group permission set", "exec a:addperm"}

\* The phase of a command: 1 creates a group or sets its weight, 2 adds a
\* parent, 3 adds a permission.
PhaseOf(command) ==
    IF IsAddParent(command) THEN 2
    ELSE IF IsAddPerm(command) THEN 3
    ELSE 1

\* The groups of a command: its group, and the parent of a parent-add.
GroupsOf(command) ==
    {command.group} \cup (IF IsAddParent(command) THEN {command.arg} ELSE {})

\* C24: the commands that add the default context come in three phases,
\* group creations and weights, then parents, then permissions; inside a
\* phase the groups follow each other in the order of their upper-cased
\* names; so every group of a parent-add or permission-add, other than
\* default, was created by an earlier command (and every group of the
\* context other than default is created).
C24_AddInPhases ==
    DefaultContextAdded =>
        /\ \A i, j \in 1..Len(out) :
              i < j => /\ PhaseOf(out[i]) <= PhaseOf(out[j])
                       /\ PhaseOf(out[i]) = PhaseOf(out[j])
                             => ~StrLess(Upper(out[j].group), Upper(out[i].group))
        /\ \A j \in 1..Len(out) :
              PhaseOf(out[j]) > 1 =>
                 \A g \in GroupsOf(out[j]) \ {GroupDefault} :
                    \E i \in 1..(j - 1) : IsCreateGroup(out[i]) /\ out[i].group = g
        /\ \A g \in DOMAIN contextMap[DefaultWorld].groups \ {GroupDefault} :
              \E i \in 1..Len(out) : IsCreateGroup(out[i]) /\ out[i].group = g

\* The default context was added: two groups were created, the one whose
\* name is the greater byte-wise first, and a parent other than default
\* and a permission were added.
C24_Witness ==
    /\ DefaultContextAdded
    /\ \E i, j \in 1..Len(out) :
          /\ i < j
          /\ IsCreateGroup(out[i])
          /\ IsCreateGroup(out[j])
          /\ StrLess(out[j].group, out[i].group)
    /\ \E i, j \in 1..Len(out) :
          /\ IsAddParent(out[i])
          /\ out[i].arg /= GroupDefault
          /\ IsAddPerm(out[j])

====
